---- MODULE Spec2Model ----
(***************************************************************************)
(* Model of rt_gene/scripts/estimate_gaze.py (class GazeEstimatorROS).     *)
(*                                                                         *)
(* State: the per-subject registry gaze_buffer_c of bounded deques, the    *)
(* time since the diagnostics stamp time_last, the position of the running *)
(* image_callback (pc, timestamp, the subjects still to iterate, the       *)
(* composite image under construction) and what the node has sent to its   *)
(* two publishers during the current callback.                             *)
(*                                                                         *)
(* Time is counted in ticks of 0.05 s, so the 0.25 s of line 69 is 5       *)
(* ticks.  The averaging weights of line 50 are counted in units of 0.025, *)
(* so [0.1, 0.125, 0.175, 0.2, 0.4] is <<4, 5, 7, 8, 16>>.  Raw estimates  *)
(* are pairs of integers (theta, phi); a weighted average is a pair of     *)
(* fractions in lowest terms (floating-point rounding is not modelled).    *)
(***************************************************************************)
EXTENDS Integers, Sequences, FiniteSets, TLC

\* ------------------------------------------------------------------ bounds
Slack == 1
MaxStamp == 1
MaxElapsed == 1
MaxPushes == 6

\* ------------------------------------------------------- program constants
\* line 69: 0.25 s, in ticks of 0.05 s
MAX_STALENESS == 5
\* line 112: collections.deque(maxlen=5)
maxlen == 5
\* average_weights with one weight more than the deques have room for
average_weights_Six == <<4, 5, 7, 8, 16, 1>>

\* line 50: np.array([0.1, 0.125, 0.175, 0.2, 0.4]), in units of 0.025
average_weights == <<4, 5, 7, 8, 16>>

\* ------------------------------------------------------------ value spaces
\* the subject ids that occur in batches
Subjects == {1, 2}
\* raw (theta, phi) estimates the external network may return
Estimates == {<<0, 1>>, <<1, 0>>}
\* time stamps of batches (0 stands for no batch)
Stamps == 1..MaxStamp
\* differences timestamp - lct the transform tree may present
Deltas == (MAX_STALENESS - 1)..(MAX_STALENESS + Slack)

\* Python's None, and a value that is not None
None == <<>>
Some(x) == <<x>>
Val(o) == o[1]

VARIABLES
    gaze_buffer_c,      \* self.gaze_buffer_c: subject id -> deque
    elapsed,            \* rospy.Time.now() - self.time_last, in ticks
    closed,             \* the node's publishers have been closed (shutdown)
    pc,                 \* "idle" | "loop": position of image_callback
    timestamp,          \* local of image_callback (line 106)
    todo,               \* subjects_dict.items() not yet iterated
    subjects_gaze_img,  \* local of image_callback (line 107)
    gaze_est,           \* local of image_callback (line 116)
    call,               \* what the last compute_eye_gaze_estimation did
    tf_sent,            \* transforms sent by tf_broadcaster in this callback
    img_sent,           \* composite sent on /subjects/gazeimages in this callback
    raised,             \* exception that left image_callback, or None
    accepted            \* history: every raw estimate pushed, per subject, oldest first

vars == <<gaze_buffer_c, elapsed, closed, pc, timestamp, todo,
          subjects_gaze_img, gaze_est, call, tf_sent, img_sent, raised, accepted>>

\* ---------------------------------------------------------------- helpers
RECURSIVE GCD(_, _)
GCD(a, b) == IF b = 0 THEN a ELSE GCD(b, a % b)

\* n/d in lowest terms, d > 0, n >= 0
Frac(n, d) == LET g == GCD(n, d) IN <<n \div g, d \div g>>

RECURSIVE SumW(_, _)
SumW(w, i) == IF i = 0 THEN 0 ELSE w[i] + SumW(w, i - 1)

RECURSIVE SumWA(_, _, _, _)
SumWA(a, w, k, i) == IF i = 0 THEN 0 ELSE w[i] * a[i][k] + SumWA(a, w, k, i - 1)

\* NpAverage with the weights ignored (a plain mean)
NpAverage_Unweighted(a, w) ==
    LET ones == [i \in 1..Len(a) |-> 1]
    IN <<Frac(SumWA(a, ones, 1, Len(a)), Len(a)),
         Frac(SumWA(a, ones, 2, Len(a)), Len(a))>>

\* np.average(np.array(a), axis=0, weights=w): a is a sequence of pairs
NpAverage(a, w) ==
    <<Frac(SumWA(a, w, 1, Len(a)), SumW(w, Len(w))),
      Frac(SumWA(a, w, 2, Len(a)), SumW(w, Len(w)))>>

\* DequeAppend of a deque without maxlen
DequeAppend_NoEvict(d, x) == Append(d, x)

\* DequeAppend that starts a new window when the old one is full
DequeAppend_Restart(d, x) ==
    IF Len(d) = maxlen THEN <<x>> ELSE Append(d, x)

\* DequeAppend that evicts at the wrong end
DequeAppend_EvictNewest(d, x) ==
    IF Len(d) = maxlen THEN Append(SubSeq(d, 1, Len(d) - 1), x) ELSE Append(d, x)

\* collections.deque(maxlen=5).append(x)
DequeAppend(d, x) ==
    IF Len(d) = maxlen THEN Append(Tail(d), x) ELSE Append(d, x)

\* GazeTransform whose parent frame lacks the subject id
GazeTransform_NoParentId(est_gaze, msg_stamp, subject_id) ==
    [translation |-> <<0, 0, 5>>,
     rotation    |-> <<est_gaze[2], est_gaze[1]>>,
     stamp       |-> msg_stamp,
     child       |-> <<"world_gaze", subject_id>>,
     parent      |-> <<"head_pose_estimated", 0>>]

\* the argument list of tf_broadcaster.sendTransform in publish_gaze
GazeTransform(est_gaze, msg_stamp, subject_id) ==
    [translation |-> <<0, 0, 5>>,
     rotation    |-> <<est_gaze[2], est_gaze[1]>>,
     stamp       |-> msg_stamp,
     child       |-> <<"world_gaze", subject_id>>,
     parent      |-> <<"head_pose_estimated", subject_id>>]

\* SGazeImg that draws the right eye twice
SGazeImg_RightTwice(subject_id, est) ==
    <<<<"right", subject_id, est>>, <<"right", subject_id, est>>>>

\* visualize_eye_result(s.right, gaze_est) next to visualize_eye_result(s.left, gaze_est)
SGazeImg(subject_id, est) ==
    <<<<"right", subject_id, est>>, <<"left", subject_id, est>>>>

\* all orders in which a dict holding the keys S may be iterated
Perms(S) ==
    {p \in [1..Cardinality(S) -> S] : \A i, j \in 1..Cardinality(S) : p[i] = p[j] => i = j}

\* what one call of compute_eye_gaze_estimation did (history, for the properties)
\* (`known`: the test of line 111 found the subject in the registry)
NoCall == [subject_id |-> 0, known |-> FALSE, lookup |-> None, gate |-> "none",
           before |-> <<>>, looked_up |-> FALSE, estimator_called |-> FALSE,
           pushed |-> FALSE, averaged |-> None, exc |-> None]

\* ------------------------------------------------------------------- Init
Init ==
    /\ gaze_buffer_c = [s \in {} |-> <<>>]
    /\ elapsed = 0
    /\ closed = FALSE
    /\ pc = "idle"
    /\ timestamp = 0
    /\ todo = <<>>
    /\ subjects_gaze_img = None
    /\ gaze_est = None
    /\ call = NoCall
    /\ tf_sent = <<>>
    /\ img_sent = None
    /\ raised = None
    /\ accepted = [s \in Subjects |-> <<>>]

\* ---------------------------------------------------------------- actions
\* rospy.Time.now() advances
Tick ==
    /\ elapsed < MaxElapsed
    /\ elapsed' = elapsed + 1
    /\ UNCHANGED <<gaze_buffer_c, closed, pc, timestamp, todo,
                   subjects_gaze_img, gaze_est, call, tf_sent, img_sent, raised,
                   accepted>>

\* the node shuts down: its publishers (the tf broadcaster's and the one of
\* /subjects/gazeimages) are closed and stay closed; publish() on a closed
\* topic raises rospy.ROSException
Shutdown ==
    /\ ~closed
    /\ closed' = TRUE
    /\ UNCHANGED <<gaze_buffer_c, elapsed, pc, timestamp, todo,
                   subjects_gaze_img, gaze_est, call, tf_sent, img_sent, raised,
                   accepted>>

\* image_callback, lines 106-109: a batch with time stamp t arrives and
\* subjects_dict.items() will yield the subjects in the order `order`
ImageCallback(t, order) ==
    /\ pc = "idle"
    /\ pc' = "loop"
    /\ timestamp' = t
    /\ todo' = order
    /\ subjects_gaze_img' = None
    /\ gaze_est' = None
    /\ call' = NoCall
    /\ tf_sent' = <<>>
    /\ img_sent' = None
    /\ raised' = None
    /\ UNCHANGED <<gaze_buffer_c, elapsed, closed, accepted>>

\* Registered that replaces the registry when it meets a new subject
Registered_Replace(subject_id) ==
    IF subject_id \in DOMAIN gaze_buffer_c
    THEN gaze_buffer_c
    ELSE [s \in {subject_id} |-> <<>>]

\* Registered without the test of line 111: a new deque on every reference
Registered_Fresh(subject_id) ==
    [s \in DOMAIN gaze_buffer_c \cup {subject_id} |->
        IF s = subject_id THEN <<>> ELSE gaze_buffer_c[s]]

\* lines 111-112: the registry after `if subject_id not in ...: ... = deque(maxlen=5)`
Registered(subject_id) ==
    IF subject_id \in DOMAIN gaze_buffer_c
    THEN gaze_buffer_c
    ELSE [s \in DOMAIN gaze_buffer_c \cup {subject_id} |->
             IF s = subject_id THEN <<>> ELSE gaze_buffer_c[s]]

\* GateAccepts that remembers a rejection: it refuses while some registered
\* subject has had nothing accepted yet
GateAccepts_Sticky(t, lct) ==
    /\ t - lct < MAX_STALENESS
    /\ \A s \in DOMAIN gaze_buffer_c : gaze_buffer_c[s] # <<>>

\* GateAccepts with the boundary let through
GateAccepts_Inclusive(t, lct) == t - lct <= MAX_STALENESS

\* GateAccepts with the staleness test missing
GateAccepts_Always(t, lct) == TRUE

\* line 69: if (timestamp - lct).to_sec() < 0.25
GateAccepts(t, lct) == t - lct < MAX_STALENESS

\* WindowFull that is off by one
WindowFull_Early(buf) == Len(average_weights) - 1 <= Len(buf)

\* line 85: if len(self.average_weights) == len(self.gaze_buffer_c[subject_id])
WindowFull(buf) == Len(average_weights) = Len(buf)

\* Catches without the except clause of line 93
Catches_OnlyROS(e) == e = "rospy.ROSException"

\* lines 93 and 95: the exceptions the two except clauses catch (the tf
\* exceptions all derive from tf.Exception; the clause at 95 swallows every
\* ROSException, whatever its text)
Catches(e) ==
    e \in {"tf.LookupException", "tf.ConnectivityException",
           "tf.ExtrapolationException", "tf.Exception", "rospy.ROSException"}

\* the try block of compute_eye_gaze_estimation, lines 68-91.
\*   lct   : result of getLatestCommonTime (None: it raised tf.Exception)
\*   found : lookupTransform at lct succeeds (else it raises a tf exception)
\*   est   : what estimate_gaze_twoeyes returns if it is called
\* The result holds the registry, the return value, the transforms sent,
\* now - time_last and the exception raised (None if the block returned).
TryBlock(reg, subject_id, lct, found, est) ==
    LET before == reg[subject_id]
        c0 == [NoCall EXCEPT !.subject_id = subject_id, !.lookup = lct,
                             !.before = before]
        out(r, ret, sent, el, exc, c) ==
            [reg |-> r, ret |-> ret, sent |-> sent, elapsed |-> el,
             exc |-> exc, call |-> [c EXCEPT !.exc = exc]]
    IN
    IF lct = None                                                         \* 68
    THEN out(reg, None, <<>>, elapsed, Some("tf.Exception"),
             [c0 EXCEPT !.gate = "lookup_failed"])
    ELSE IF ~GateAccepts(timestamp, Val(lct))                             \* 69, 78, 79
    THEN out(reg, None, <<>>, elapsed, None, [c0 EXCEPT !.gate = "stale"])
    ELSE
      LET c1 == [c0 EXCEPT !.gate = "accept", !.looked_up = TRUE]
      IN
      IF ~found                                                           \* 72
      THEN out(reg, None, <<>>, elapsed, Some("tf.ExtrapolationException"), c1)
      ELSE
        LET after == DequeAppend(before, est)                             \* 81, 83
            reg2 == [reg EXCEPT ![subject_id] = after]
            c2 == [c1 EXCEPT !.estimator_called = TRUE, !.pushed = TRUE]
        IN
        IF ~WindowFull(after)                                             \* 85
        THEN out(reg2, None, <<>>, elapsed, None, c2)                   \* 98
        ELSE
          LET est_gaze_c_med == NpAverage(after, average_weights)         \* 86
              c3 == [c2 EXCEPT !.averaged = Some(est_gaze_c_med)]
              tfm == GazeTransform(est_gaze_c_med, timestamp, subject_id)
          IN
          IF closed                                                       \* 87
          THEN out(reg2, None, <<>>, elapsed, Some("rospy.ROSException"), c3)
          ELSE IF elapsed = 0                                             \* 89
          THEN out(reg2, None, <<tfm>>, elapsed, Some("ZeroDivisionError"), c3)
          ELSE out(reg2, Some(est_gaze_c_med), <<tfm>>, 0, None, c3)      \* 90, 91

\* ComputeEyeGazeEstimation that still returns the average it computed when
\* the publish of line 87 failed and the exception was swallowed
ComputeEyeGazeEstimation_ReturnOnCatch(reg, subject_id, lct, found, est) ==
    LET b == TryBlock(reg, subject_id, lct, found, est)
    IN IF b.exc # None /\ Catches(Val(b.exc))
       THEN [b EXCEPT !.exc = None, !.ret = b.call.averaged]
       ELSE b

\* compute_eye_gaze_estimation, lines 67-98: the try block under its two
\* except clauses; `exc` is the exception that leaves the call, if any
ComputeEyeGazeEstimation(reg, subject_id, lct, found, est) ==
    LET b == TryBlock(reg, subject_id, lct, found, est)
    IN IF b.exc # None /\ Catches(Val(b.exc))
       THEN [b EXCEPT !.exc = None]                                       \* 94, 97, 98
       ELSE b

\* one iteration of the loop of image_callback, lines 110-125
ProcessSubject(lct, found, est) ==
    /\ pc = "loop"
    /\ todo # <<>>
    /\ LET subject_id == Head(todo)
           r == ComputeEyeGazeEstimation(Registered(subject_id), subject_id,
                                         lct, found, est)
       IN
       /\ gaze_buffer_c' = r.reg
       /\ elapsed' = r.elapsed
       /\ tf_sent' = tf_sent \o r.sent
       /\ call' = [r.call EXCEPT !.known = subject_id \in DOMAIN gaze_buffer_c]
       /\ gaze_est' = r.ret
       /\ todo' = Tail(todo)
       /\ accepted' = IF r.call.pushed
                      THEN [accepted EXCEPT ![subject_id] = Append(@, est)]
                      ELSE accepted
       /\ IF r.exc # None
          THEN /\ raised' = r.exc
               /\ pc' = "idle"
               /\ UNCHANGED subjects_gaze_img
          ELSE /\ UNCHANGED <<raised, pc>>
               /\ subjects_gaze_img' =
                     IF r.ret = None THEN subjects_gaze_img               \* 118
                     ELSE IF subjects_gaze_img = None
                          THEN Some(<<SGazeImg(subject_id, Val(r.ret))>>) \* 123
                          ELSE Some(Append(Val(subjects_gaze_img),
                                           SGazeImg(subject_id, Val(r.ret))))
    /\ UNCHANGED <<closed, timestamp, img_sent>>

\* the end of image_callback, lines 127-129; the locals die with the return
PublishComposite ==
    /\ pc = "loop"
    /\ todo = <<>>
    /\ pc' = "idle"
    /\ IF subjects_gaze_img = None
       THEN UNCHANGED <<img_sent, raised>>
       ELSE IF closed
            THEN /\ raised' = Some("rospy.ROSException")
                 /\ UNCHANGED img_sent
            ELSE /\ img_sent' = subjects_gaze_img
                 /\ UNCHANGED raised
    /\ subjects_gaze_img' = None
    /\ gaze_est' = None
    /\ call' = NoCall
    /\ timestamp' = 0
    /\ UNCHANGED <<gaze_buffer_c, elapsed, closed, todo, tf_sent, accepted>>

\* what the transform tree and the network can answer for one subject of a
\* batch stamped t: [lct, found, est] as ComputeEyeGazeEstimation reads them
AnyEst == CHOOSE e \in Estimates : TRUE
Answers(t) ==
    {[lct |-> None, found |-> FALSE, est |-> AnyEst]}
    \cup {[lct |-> Some(t - d), found |-> FALSE, est |-> AnyEst] : d \in Deltas}
    \cup {[lct |-> Some(t - d), found |-> TRUE, est |-> e] :
             d \in Deltas, e \in Estimates}

RECURSIVE TotalLen(_, _)
TotalLen(f, S) ==
    IF S = {} THEN 0
    ELSE LET s == CHOOSE x \in S : TRUE IN Len(f[s]) + TotalLen(f, S \ {s})

\* bound: no more than MaxPushes estimates are pushed in a behaviour
PushesLeft == TotalLen(accepted, Subjects) < MaxPushes

Next ==
    \/ Tick
    \/ Shutdown
    \/ \E t \in Stamps, S \in SUBSET Subjects : \E order \in Perms(S) :
          ImageCallback(t, order)
    \/ \E a \in Answers(timestamp) :
          /\ (a.found => PushesLeft)
          /\ ProcessSubject(a.lct, a.found, a.est)
    \/ PublishComposite

Spec == Init /\ [][Next]_vars

\* ------------------------------------------------------------- properties
\* number of weights, the window size W of the specification
W == Len(average_weights)

\* a compute_eye_gaze_estimation call has been made in the running callback
Called == call.subject_id # 0
\* the subject of that call
Sid == call.subject_id
\* timestamp - lct of that call (when getLatestCommonTime returned)
Delta == timestamp - Val(call.lookup)
\* the transforms sent for subject s in the running callback
TfFor(s) == {i \in 1..Len(tf_sent) : tf_sent[i].child = <<"world_gaze", s>>}
\* the smoothed estimate was published and returned
Emitted == gaze_est # None /\ TfFor(Sid) # {}
\* the call pushed and the buffer then held W estimates
PushedFull == call.pushed /\ Len(gaze_buffer_c[Sid]) = W
\* numerator of the weighted average of component k over the window win,
\* weight index 0 on win[1]; the weights sum to 40
WeightedSum(win, k) ==
    4 * win[1][k] + 5 * win[2][k] + 7 * win[3][k] + 8 * win[4][k] + 16 * win[5][k]
\* the last W elements of a history
LastW(h) == SubSeq(h, Len(h) - W + 1, Len(h))
\* buffer length of subject s, 0 while s is not registered
N(s) == IF s \in DOMAIN gaze_buffer_c THEN Len(gaze_buffer_c[s]) ELSE 0

\* C1 (as stated): a call that returns has published and returned a smoothed
\* estimate if and only if it pushed an estimate and the buffer then held W
\* estimates; in every other case it returns nothing.
C1_Original ==
    (Called /\ raised = None) => (Emitted <=> PushedFull)

\* C1 (amended): a smoothed estimate is computed and handed to publish_gaze if
\* and only if the call pushed and the buffer then held W estimates; it is
\* published and returned only in that case, and then it is the computed
\* average; when it was computed and nothing is returned, either the publisher
\* was closed and no transform was sent, or an exception left the callback.
C1_EmissionThreshold ==
    Called =>
        /\ (call.averaged # None <=> PushedFull)
        /\ (gaze_est # None => PushedFull /\ gaze_est = call.averaged /\ TfFor(Sid) # {})
        /\ (TfFor(Sid) # {} => PushedFull)
        /\ (PushedFull /\ gaze_est = None =>
                \/ closed /\ TfFor(Sid) = {} /\ raised = None
                \/ raised # None)

C1_Witness ==
    Called /\ PushedFull /\ Emitted /\ Len(accepted[Sid]) = W

\* C2: the gate accepts if and only if timestamp - lct < 0.25 s; at the
\* boundary and beyond, the call is rejected as stale and neither
\* lookupTransform nor the estimator is reached and nothing is pushed.
C2_StalenessGate ==
    (Called /\ call.lookup # None) =>
        /\ (call.gate = "accept" <=> Delta < MAX_STALENESS)
        /\ (Delta >= MAX_STALENESS =>
                /\ call.gate = "stale"
                /\ ~call.looked_up
                /\ ~call.estimator_called
                /\ ~call.pushed)

C2_Witness ==
    Called /\ call.lookup # None /\ Delta = MAX_STALENESS /\ call.gate = "stale"

\* C3: no buffer ever holds more than W estimates; a push onto a buffer that
\* holds W estimates drops exactly the oldest one and leaves W.
C3_BoundedMemory ==
    /\ \A s \in DOMAIN gaze_buffer_c : Len(gaze_buffer_c[s]) <= W
    /\ (Called /\ call.pushed /\ Len(call.before) = W) =>
          /\ Len(gaze_buffer_c[Sid]) = W
          /\ gaze_buffer_c[Sid] =
                Append(Tail(call.before), accepted[Sid][Len(accepted[Sid])])

C3_Witness ==
    Called /\ call.pushed /\ Len(call.before) = W
    /\ call.before[1] # call.before[2]

\* C4: a call whose pose is stale (timestamp - lct >= 0.25 s) leaves the
\* subject's buffer as it was, does not call the estimator, publishes no
\* transform, returns nothing, and the callback goes on.
C4_StaleNoEffect ==
    (Called /\ call.lookup # None /\ Delta >= MAX_STALENESS) =>
        /\ gaze_buffer_c[Sid] = call.before
        /\ N(Sid) = Len(call.before)
        /\ ~call.estimator_called
        /\ TfFor(Sid) = {}
        /\ gaze_est = None
        /\ raised = None
        /\ pc = "loop"

C4_Witness ==
    Called /\ call.lookup # None /\ Delta = MAX_STALENESS + 1
    /\ call.gate = "stale" /\ call.before # <<>>
    /\ gaze_buffer_c[Sid] = call.before

\* C5: when the head-pose lookup fails (getLatestCommonTime or lookupTransform
\* raises a tf exception), the subject is skipped: buffer unchanged, estimator
\* not called, nothing published or returned; no exception leaves the call and
\* the loop goes on with the remaining subjects.
TfFailed ==
    Called /\ (call.lookup = None \/ (call.gate = "accept" /\ ~call.estimator_called))

C5_LookupFailureSkips ==
    TfFailed =>
        /\ gaze_buffer_c[Sid] = call.before
        /\ ~call.estimator_called
        /\ ~call.pushed
        /\ gaze_est = None
        /\ TfFor(Sid) = {}
        /\ raised = None
        /\ pc = "loop"

C5_Witness ==
    TfFailed /\ call.lookup = None /\ todo # <<>> /\ call.before # <<>>
    /\ gaze_buffer_c[Sid] = call.before

\* C6 (as stated): a publication that fails because the publisher is closed
\* is swallowed, for the gaze transform and for the composite image alike:
\* the loop goes on and no ROSException leaves image_callback.
C6_Original ==
    /\ raised # Some("rospy.ROSException")
    /\ (Called /\ call.exc = Some("rospy.ROSException")) =>
          /\ raised = None
          /\ pc = "loop"

\* C7 (as stated): per subject, n never decreases, grows by one on each
\* accepted push while n < W, and from n = W on every accepted push (of a call
\* that returns) publishes and returns a smoothed estimate.
C7_Original ==
    [][\A s \in Subjects :
          LET pushed == accepted'[s] # accepted[s]
              n1 == IF s \in DOMAIN gaze_buffer_c' THEN Len(gaze_buffer_c'[s]) ELSE 0
          IN /\ n1 >= N(s)
             /\ (s \in DOMAIN gaze_buffer_c => s \in DOMAIN gaze_buffer_c')
             /\ (pushed /\ N(s) < W => n1 = N(s) + 1)
             /\ (pushed /\ N(s) = W /\ raised' = None =>
                    /\ n1 = W
                    /\ gaze_est' # None
                    /\ \E i \in 1..Len(tf_sent') : tf_sent'[i].child = <<"world_gaze", s>>)
      ]_vars

\* C7 (amended): per subject, n never decreases, grows by one on each accepted
\* push while n < W, and from n = W on every accepted push leaves n = W and
\* computes the smoothed estimate and hands it to publish_gaze again; the
\* estimate is published and returned unless the publisher is closed or an
\* exception leaves the callback.
C7_SteadyIsTerminal ==
    [][\A s \in Subjects :
          LET pushed == accepted'[s] # accepted[s]
              n1 == IF s \in DOMAIN gaze_buffer_c' THEN Len(gaze_buffer_c'[s]) ELSE 0
          IN /\ n1 >= N(s)
             /\ (s \in DOMAIN gaze_buffer_c => s \in DOMAIN gaze_buffer_c')
             /\ (pushed /\ N(s) < W => n1 = N(s) + 1)
             /\ (pushed /\ N(s) = W =>
                    /\ n1 = W
                    /\ call'.subject_id = s
                    /\ call'.averaged # None
                    /\ \/ /\ gaze_est' = call'.averaged
                          /\ \E i \in 1..Len(tf_sent') :
                                tf_sent'[i].child = <<"world_gaze", s>>
                       \/ closed /\ gaze_est' = None /\ tf_sent' = tf_sent
                       \/ raised' # None)
      ]_vars

C7_Witness ==
    Called /\ call.pushed /\ Len(call.before) = W /\ Emitted

\* C8: at every emission the averaged window is the W most recent accepted
\* raw estimates of the subject in arrival order, weight index 0 on the
\* oldest of them: the window over e0..e(W-1) at the W-th accepted push, the
\* window over e1..eW at the next.
C8_SlidingWindow ==
    (Called /\ call.averaged # None) =>
        LET h == accepted[Sid]
            m == Val(call.averaged)
        IN /\ Len(h) >= W
           /\ gaze_buffer_c[Sid] = LastW(h)
           /\ \A k \in 1..2 :
                 m[k][1] * 40 = m[k][2] * WeightedSum(LastW(h), k)

C8_Witness ==
    Called /\ call.averaged # None /\ Len(accepted[Sid]) = W + 1
    /\ accepted[Sid][1] # accepted[Sid][W + 1]
    /\ accepted[Sid][1] # accepted[Sid][2]

\* C9: the emitted estimate is (sum of wi * ei) / (sum of wi) over the buffer
\* contents oldest to newest, separately for theta and phi; weights [1,2,3]
\* over (1,1),(2,2),(3,3) give 14/6 in both components.
C9_WeightingCorrectness ==
    /\ NpAverage(<<<<1, 1>>, <<2, 2>>, <<3, 3>>>>, <<1, 2, 3>>) = <<<<7, 3>>, <<7, 3>>>>
    /\ (Called /\ call.averaged # None) =>
          LET b == gaze_buffer_c[Sid]
              m == Val(call.averaged)
          IN /\ Len(b) = W
             /\ \A k \in 1..2 :
                   /\ m[k][2] > 0
                   /\ m[k][1] * (4 + 5 + 7 + 8 + 16) = m[k][2] * WeightedSum(b, k)
             /\ (gaze_est # None => Val(gaze_est) = m)
             /\ \A i \in TfFor(Sid) : tf_sent[i].rotation = <<m[2], m[1]>>

C9_Witness ==
    Called /\ Emitted
    /\ Val(gaze_est)[1] # Val(gaze_est)[2]
    /\ gaze_buffer_c[Sid][1] # gaze_buffer_c[Sid][W]

PairsOf(sent) ==
    [i \in 1..Len(sent) |->
        LET s == sent[i].child[2]
            g == <<sent[i].rotation[2], sent[i].rotation[1]>>
        IN <<<<"right", s, g>>, <<"left", s, g>>>>]

C12_RegistryLifecycle ==
    [][LET a == IF pc = "loop" /\ todo # <<>> THEN Head(todo) ELSE 0
       IN /\ DOMAIN gaze_buffer_c \subseteq DOMAIN gaze_buffer_c'
          /\ \A s \in DOMAIN gaze_buffer_c' \ DOMAIN gaze_buffer_c :
                /\ s = a
                /\ call'.subject_id = s /\ ~call'.known
                /\ call'.before = <<>>
                /\ gaze_buffer_c'[s] = (IF call'.pushed
                                        THEN <<accepted'[s][1]>> ELSE <<>>)
                /\ accepted[s] = <<>>
          /\ \A s \in DOMAIN gaze_buffer_c :
                LET b == gaze_buffer_c[s]
                    b1 == gaze_buffer_c'[s]
                IN \/ b1 = b
                   \/ /\ s = a /\ call'.known /\ call'.before = b
                      /\ Len(b1) >= 1
                      /\ b1 = (IF Len(b) < maxlen THEN b ELSE Tail(b)) \o <<b1[Len(b1)]>>
          /\ (a # 0 /\ call'.subject_id = a => a \in DOMAIN gaze_buffer_c')
      ]_vars

C12_Witness ==
    /\ Called /\ call.known /\ call.before # <<>> /\ ~call.pushed
    /\ gaze_buffer_c[Sid] = call.before
    /\ \E b \in Subjects \ {Sid} : b \in DOMAIN gaze_buffer_c /\ gaze_buffer_c[b] = <<>>

C15_GateNotPersisted ==
    Called =>
        /\ (call.pushed <=>
               /\ call.lookup # None
               /\ Delta < MAX_STALENESS
               /\ call.exc \notin {Some("tf.Exception"),
                                   Some("tf.ExtrapolationException")})
        /\ (call.pushed =>
               /\ call.gate = "accept" /\ call.looked_up /\ call.estimator_called
               /\ accepted[Sid] # <<>>
               /\ gaze_buffer_c[Sid] =
                     Append(IF Len(call.before) < maxlen
                            THEN call.before ELSE Tail(call.before),
                            accepted[Sid][Len(accepted[Sid])]))
        /\ (~call.pushed => gaze_buffer_c[Sid] = call.before)

C15_Witness ==
    /\ Called /\ call.known /\ call.before = <<>> /\ call.pushed
    /\ Len(accepted[Sid]) = 1 /\ Len(gaze_buffer_c[Sid]) = 1

\* C16 (as stated): whenever a push filled the window and the gaze transform
\* was published, the call returns the smoothed estimate to image_callback,
\* for every value of now - time_last read for the diagnostics, zero included.
C16_Original ==
    (Called /\ PushedFull /\ TfFor(Sid) # {}) =>
        /\ gaze_est = call.averaged
        /\ call.exc = None

\* C17: within a batch every gaze transform is published before the composite
\* image: a transform is only ever published while no composite of the batch
\* has gone out, and the composite goes out in a step that publishes no
\* transform and shows exactly the subjects whose transforms were published
\* before it; a subject's visualization pair is added only by the iteration
\* that has published that subject's transform, for the same estimate.
C17_PublicationOrder ==
    [][LET rows(o) == IF o = None THEN <<>> ELSE Val(o)
       IN /\ (tf_sent' # tf_sent /\ tf_sent' # <<>>) =>
                /\ pc = "loop" /\ img_sent = None /\ img_sent' = None
                /\ Len(tf_sent') = Len(tf_sent) + 1
                /\ SubSeq(tf_sent', 1, Len(tf_sent)) = tf_sent
          /\ (img_sent' # img_sent /\ img_sent' # None) =>
                /\ pc = "loop" /\ pc' = "idle"
                /\ tf_sent' = tf_sent
                /\ tf_sent # <<>>
                /\ Val(img_sent') = PairsOf(tf_sent)
          /\ (subjects_gaze_img' # subjects_gaze_img /\ subjects_gaze_img' # None) =>
                /\ pc = "loop" /\ todo # <<>>
                /\ Len(tf_sent') = Len(tf_sent) + 1
                /\ tf_sent'[Len(tf_sent')].child = <<"world_gaze", Head(todo)>>
                /\ tf_sent'[Len(tf_sent')].stamp = timestamp
                /\ rows(subjects_gaze_img') =
                      rows(subjects_gaze_img) \o PairsOf(<<tf_sent'[Len(tf_sent')]>>)
      ]_vars

C17_Witness ==
    /\ pc = "loop" /\ todo # <<>> /\ img_sent = None
    /\ subjects_gaze_img # None /\ Len(Val(subjects_gaze_img)) = 1
    /\ Len(tf_sent) = 1 /\ Val(subjects_gaze_img) = PairsOf(tf_sent)

\* C18: the capacity of every subject buffer (deque maxlen) equals the number
\* of averaging weights, so for every registered buffer the emission test of
\* line 85 (number of weights = buffer length) is true exactly when the buffer
\* is full; a push computes the average exactly when it leaves the buffer
\* full, and every push onto a full buffer does.
C18_WindowSizeConsistency ==
    /\ maxlen = Len(average_weights)
    /\ \A s \in DOMAIN gaze_buffer_c :
          /\ Len(gaze_buffer_c[s]) <= maxlen
          /\ (WindowFull(gaze_buffer_c[s]) <=> Len(gaze_buffer_c[s]) = maxlen)
    /\ (Called /\ call.pushed) =>
          /\ (call.averaged # None <=> Len(gaze_buffer_c[Sid]) = maxlen)
          /\ (Len(call.before) = maxlen => call.averaged # None)
          /\ (Len(call.before) < maxlen - 1 => call.averaged = None)

C18_Witness ==
    /\ Called /\ call.pushed /\ Len(call.before) = maxlen - 1
    /\ Len(gaze_buffer_c[Sid]) = Len(average_weights)
    /\ call.averaged # None
====
